---- MODULE Spec2Model ----
(***************************************************************************)
(* Candidate production of the AURA parachain consensus                    *)
(* (client/consensus/aura/src/lib.rs).                                     *)
(*                                                                         *)
(* The builder makes one AuraConsensus; it and its clones, NumInv values   *)
(* in all, share the same aura_worker, an                                  *)
(* Arc<parking_lot::Mutex<dyn SlotWorker>>.  Each value runs one           *)
(* invocation of produce_candidate; the invocations are polled by a        *)
(* multi-threaded executor, so their steps interleave freely.              *)
(*                                                                         *)
(* Time is one millisecond axis: SystemTime::now() and Instant::now() both *)
(* read `clock`; the opaque origin of Instant is placed at the UNIX epoch  *)
(* so that timestamp and ends_at are comparable.  A negative clock is a    *)
(* system clock set before the epoch.                                      *)
(*                                                                         *)
(* ExtSpec is the contracts chain extension of the rococo-parachains       *)
(* runtime (runtime/src/chain_extension.rs) with the asset adapter it      *)
(* calls (runtime/src/contract_assets_adapter.rs): contracts call          *)
(* func_id 1101, 1102, 1104, 1105 or another one, one call at a time, on   *)
(* the Balances and Tokens balances of the accounts.  CurrencySpec is the  *)
(* conversion between TokenSymbol and u8 (primitives/src/currency.rs).     *)
(* Under each specification the state of the other parts stays as it is    *)
(* at the start.                                                           *)
(***************************************************************************)
EXTENDS Integers, FiniteSets, Sequences, TLC

\* ------------------------------------------------------------------ bounds
NumInv == 2
MaxTicks == 1
NumAccounts == 2
MaxUnits == 2

\* --------------------------------------------------------- program constants
SLOT_DURATION == 12000
ATTEMPT_BUDGET == 500
\* runtime/src/lib.rs line 213
ExistentialDeposit == 500

\* ------------------------------------------------------------- input domains
Inv == 1..NumInv
InitClocks == {-5, 36005}
TickSteps == {12000}
CallArgs ==
    { [parent |-> "H1", relay_parent |-> "R1", validation_data |-> "V1"],
      [parent |-> "H2", relay_parent |-> "R2", validation_data |-> "V2"] }
InherentDatas == {"D1", "D2"}
SlotResults ==
    { [block |-> "B123", storage_proof |-> "P1"],
      [block |-> "B456", storage_proof |-> "P2"] }

\* Option<T>: None is the empty sequence, Some(x) the one-element sequence.
None == << >>
Some(x) == << x >>
IsSome(o) == Len(o) = 1
Unwrap(o) == o[1]

\* state of the parking_lot mutex around a worker when no guard is alive
Unlocked == 0

\* identities of the workers build_aura_worker can have made: at most one
\* for each AuraConsensus value
Workers == 1..NumInv

VARIABLES
    clock,          \* current time in ms since the UNIX epoch
    ticks,          \* number of clock advances so far
    pc,             \* position of each invocation in produce_candidate
    args,           \* (parent, relay_parent, validation_data) of each invocation
    timestamp,      \* local `timestamp` of each invocation, in ms
    slot,           \* the `slot` field evaluated at line 208
    cidp,           \* outcome of create_inherent_data_providers
    cid,            \* outcome of create_inherent_data
    info,           \* the SlotInfo an invocation has built and still owns
    mutex,          \* for each worker, the holder of its mutex, or Unlocked
    on_slot_calls,  \* number of on_slot calls the worker got from each invocation
    lock_count,     \* number of times each invocation acquired the mutex
    future,         \* the future on_slot returned to each invocation
    result,         \* what produce_candidate returned
    factory_args,   \* arguments of the factory call an invocation is suspended on
    provided,       \* the bag the provider set of an invocation materialized
    self,           \* the fields of each AuraConsensus value
    dispatches,     \* number of execute_with dispatches
    new_calls,      \* number of AuraConsensus::new calls
    engines_built,  \* number of build_aura_worker calls
    parachain_id,   \* ParachainInfo::parachain_id() of the runtime
    free_balance,   \* Balances: free balance of each account
    tokens,         \* Tokens: free balance of each account in each token
    last,           \* "call" while a chain-extension call has ended and the
                    \* contract has not resumed, "none" while a contract can
                    \* call, "off" before genesis
    env,            \* Environment of that call: caller, func_id, buffers
    ret,            \* what CustomExtension::call returned
    op,             \* the adapter or XCM operation the call made
    byte_in,        \* a u8 handed to TokenSymbol::try_from
    sym_in,         \* a TokenSymbol handed to into
    tried,          \* result of TokenSymbol::try_from(byte_in)
    back,           \* u8 the symbol in `tried` converts into
    round           \* result of TokenSymbol::try_from(sym_in.into())

\* what building and cloning set up
wiring == << self, dispatches, new_calls, engines_built >>

\* the runtime's state and the chain-extension call in progress
ext == << parachain_id, free_balance, tokens, last, env, ret, op >>

\* the conversions of primitives/src/currency.rs at work
currency == << byte_in, sym_in, tried, back, round >>

\* the collator node's state
node == << clock, ticks, pc, args, timestamp, slot, cidp, cid, info, mutex,
           on_slot_calls, lock_count, future, result, factory_args, provided,
           wiring >>

vars == << node, ext, currency >>

\* ------------------------------------------------------------------ helpers

\* A slot index rounded to the nearest slot boundary instead of floored.
SlotOf_Rounded(ms) == (ms + SLOT_DURATION \div 2) \div SLOT_DURATION

\* line 208: (timestamp.as_millis() / 12000) as u64.  as_millis() is a u128
\* of at most u64::MAX * 1000 + 999, so the quotient is below 2^64 and the
\* cast never truncates.
SlotOf(ms) == ms \div SLOT_DURATION

\* A SlotInfo whose deadline is counted from the timestamp reading.
SlotInfo_DeadlineFromTimestamp(s, data, head, ts, now) ==
    [ slot |-> s,
      duration |-> SLOT_DURATION,
      inherent_data |-> data,
      chain_head |-> head,
      timestamp |-> ts,
      ends_at |-> ts + ATTEMPT_BUDGET ]

\* lines 207-216: the SlotInfo literal
SlotInfo(s, data, head, ts, now) ==
    [ slot |-> s,
      duration |-> SLOT_DURATION,
      inherent_data |-> data,
      chain_head |-> head,
      timestamp |-> ts,
      ends_at |-> now + ATTEMPT_BUDGET ]

\* lines 221-224
ParachainCandidate(res) ==
    [ block |-> res.block, proof |-> res.storage_proof ]

\* no future yet
NoFuture == [st |-> "none", info |-> << >>, res |-> << >>, late |-> FALSE]

\* line 211: parent.hash()
HashOf(header) ==
    CASE header = "H1" -> "0xa1"
      [] header = "H2" -> "0xb2"
      [] OTHER -> "0x00"

\* The factory is handed the relay parent where the parachain parent hash
\* belongs (both are 32-byte hashes).
FactoryArgs_RelayAsParent(a) ==
    [ parent |-> a.relay_parent,
      extra |-> << a.relay_parent, a.validation_data >> ]

\* lines 164 and 211: create_inherent_data_providers(parent, (relay_parent,
\* validation_data.clone())) with parent = parent.hash()
FactoryArgs(a) ==
    [ parent |-> HashOf(a.parent),
      extra |-> << a.relay_parent, a.validation_data >> ]

\* an AuraConsensus value that does not exist yet
NoSelf ==
    [ inherent_data_providers |-> "none",
      relay_chain_backend |-> "none",
      relay_chain_client |-> "none",
      aura_worker |-> 0 ]

\* lines 147-152: the value AuraConsensus::new returns around worker w
NewSelf(w) ==
    [ inherent_data_providers |-> "Arc(inherent_data_providers)",
      relay_chain_backend |-> "polkadot_backend",
      relay_chain_client |-> "polkadot_client",
      aura_worker |-> w ]

\* ------------------------------------------------ runtime: values and domains

\* Result<T, E>; a call that panics returns nothing.
Ok(x) == [st |-> "Ok", ok |-> << x >>, err |-> << >>]
Err(e) == [st |-> "Err", ok |-> << >>, err |-> << e >>]
Panic == [st |-> "panic", ok |-> << >>, err |-> << >>]
NoRet == [st |-> "none", ok |-> << >>, err |-> << >>]
IsOk(r) == r.st = "Ok"

\* chain_extension.rs line 120
Converging(n) == [retval |-> "Converging", code |-> n]

\* currency.rs lines 106-129: the rows handed to create_currency_id!, the
\* commented-out ones left out as the compiler leaves them out.
create_currency_id ==
    { [symbol |-> "DOT", name |-> "Polkadot", deci |-> 10, val |-> 2] }

\* currency.rs lines 38-40: the variants of TokenSymbol
TokenSymbols == { row.symbol : row \in create_currency_id }

\* the values of a u8
U8 == 0..255

\* account ids of the contracts' callers and of the parties they name
Accounts == 1..NumAccounts
\* balances and amounts, in multiples of the existential deposit
Amounts == { k * ExistentialDeposit : k \in 0..MaxUnits }
\* para ids an asset or an XCM destination can name
ParaIds == {100, 200}
\* the para id this chain got at genesis; para ids are only compared
SelfParaId == 100
\* module_index of AssetId::Module, a u8: 1 is Balances, 2 is Tokens
ModuleIndexes == {0, 1, 2, 3}
\* asset_index of AssetId::Module, a u32: 2 is DOT, 258 is 2 modulo 2^8
AssetIndexes == {2, 3, 258}
\* func_id values outside the four the extension knows
OtherFuncIds == {0, 1103}

\* contract_assets_adapter.rs lines 30-35: AssetId.  Every value carries the
\* fields of both variants; those of the other variant are zero.
Module(chain_id, module_index, asset_index) ==
    [ variant |-> "Module", chain_id |-> chain_id,
      module_index |-> module_index, asset_index |-> asset_index, address |-> 0 ]
Local(address) ==
    [ variant |-> "Local", chain_id |-> 0, module_index |-> 0, asset_index |-> 0,
      address |-> address ]
AssetIds ==
    { Module(c, m, x) : c \in ParaIds, m \in ModuleIndexes, x \in AssetIndexes }
      \cup { Local(a) : a \in Accounts }

\* no chain-extension call has ended
NoEnv == [caller |-> 0, func_id |-> 0, input |-> << >>, reads |-> 0, output |-> << >>]
\* the call made no adapter or XCM operation
NoOp ==
    [ name |-> "none", asset_id |-> << >>, from |-> 0, to |-> 0, amount |-> 0,
      dest |-> 0, via |-> "none", res |-> NoRet, val |-> 0 ]

\* the runtime before genesis: no contract runs
ExtOff ==
    /\ parachain_id = 0
    /\ free_balance = [a \in Accounts |-> 0]
    /\ tokens = [t \in TokenSymbols |-> [a \in Accounts |-> 0]]
    /\ last = "off"
    /\ env = NoEnv
    /\ ret = NoRet
    /\ op = NoOp

\* no conversion is asked for
CurrencyOff ==
    /\ byte_in = 0
    /\ sym_in = "DOT"
    /\ tried = None
    /\ back = None
    /\ round = None

\* the collator node before build_aura_consensus is called, its system
\* clock reading one of `clocks`
NodeInit(clocks) ==
    /\ clock \in clocks
    /\ ticks = 0
    /\ pc = [i \in Inv |-> "absent"]
    /\ args = [i \in Inv |-> None]
    /\ timestamp = [i \in Inv |-> None]
    /\ slot = [i \in Inv |-> None]
    /\ cidp = [i \in Inv |-> "NotCalled"]
    /\ cid = [i \in Inv |-> "NotCalled"]
    /\ info = [i \in Inv |-> None]
    /\ mutex = [w \in Workers |-> Unlocked]
    /\ on_slot_calls = [i \in Inv |-> 0]
    /\ lock_count = [i \in Inv |-> 0]
    /\ future = [i \in Inv |-> NoFuture]
    /\ result = [i \in Inv |-> None]
    /\ factory_args = [i \in Inv |-> None]
    /\ provided = [i \in Inv |-> None]
    /\ self = [i \in Inv |-> NoSelf]
    /\ dispatches = 0
    /\ new_calls = 0
    /\ engines_built = 0

Init ==
    /\ NodeInit(InitClocks)
    /\ ExtOff
    /\ CurrencyOff

\* ------------------------------------------------------------------ actions

\* lines 296-308, 399-400 and 445-463: build_aura_consensus makes the
\* builder and consumes it in build(); execute_with dispatches once to
\* execute_with_client, which calls AuraConsensus::new; new builds the one
\* worker (lines 137-145) and wraps it in the mutex (line 151).
build ==
    /\ dispatches = 0
    /\ dispatches' = dispatches + 1
    /\ new_calls' = new_calls + 1
    /\ engines_built' = engines_built + 1
    /\ self' = [self EXCEPT ![1] = NewSelf(engines_built + 1)]
    /\ pc' = [pc EXCEPT ![1] = "idle"]
    /\ UNCHANGED << clock, ticks, args, timestamp, slot, cidp, cid, info, mutex,
                    on_slot_calls, lock_count, future, result, factory_args,
                    provided,
                    ext, currency >>

\* clone() builds a worker and a mutex of its own for the new value.
clone_NewWorker(i, j) ==
    /\ pc[i] \in {"idle", "done"}
    /\ pc[j] = "absent"
    /\ \A k \in Inv : k < j => pc[k] # "absent"
    /\ engines_built' = engines_built + 1
    /\ self' = [self EXCEPT ![j] =
                  [ inherent_data_providers |-> self[i].inherent_data_providers,
                    relay_chain_backend |-> self[i].relay_chain_backend,
                    relay_chain_client |-> self[i].relay_chain_client,
                    aura_worker |-> engines_built + 1 ]]
    /\ pc' = [pc EXCEPT ![j] = "idle"]
    /\ UNCHANGED << clock, ticks, args, timestamp, slot, cidp, cid, info, mutex,
                    on_slot_calls, lock_count, future, result, factory_args,
                    provided, dispatches, new_calls,
                    ext, currency >>

\* lines 79-88: clone() copies the four Arc handles.  The source is not
\* inside produce_candidate, which borrows it mutably.  The clone takes the
\* next free index.
clone(i, j) ==
    /\ pc[i] \in {"idle", "done"}
    /\ pc[j] = "absent"
    /\ \A k \in Inv : k < j => pc[k] # "absent"
    /\ self' = [self EXCEPT ![j] =
                  [ inherent_data_providers |-> self[i].inherent_data_providers,
                    relay_chain_backend |-> self[i].relay_chain_backend,
                    relay_chain_client |-> self[i].relay_chain_client,
                    aura_worker |-> self[i].aura_worker ]]
    /\ pc' = [pc EXCEPT ![j] = "idle"]
    /\ UNCHANGED << clock, ticks, args, timestamp, slot, cidp, cid, info, mutex,
                    on_slot_calls, lock_count, future, result, factory_args,
                    provided, dispatches, new_calls, engines_built,
                    ext, currency >>

\* Real time passes.
Tick ==
    /\ ticks < MaxTicks
    /\ \E dt \in TickSteps : clock' = clock + dt
    /\ ticks' = ticks + 1
    /\ UNCHANGED << pc, args, timestamp, slot, cidp, cid, info, mutex,
                    on_slot_calls, lock_count, future, result, factory_args, provided,
                    wiring,
                    ext, currency >>

\* lines 203-205 with the clock before the epoch: duration_since returns Err
\* and unwrap panics; the task unwinds without returning.
produce_candidate_Panic(i) ==
    /\ pc[i] = "idle"
    /\ clock < 0
    /\ pc' = [pc EXCEPT ![i] = "panicked"]
    /\ UNCHANGED << clock, ticks, args, timestamp, slot, cidp, cid, info, mutex,
                    on_slot_calls, lock_count, future, result, factory_args, provided,
                    wiring,
                    ext, currency >>

\* Each invocation replaces the worker handle of its orchestrator.
produce_candidate_Start_Rewire(i) ==
    /\ pc[i] = "idle"
    /\ clock >= 0
    /\ \E a \in CallArgs :
         /\ args' = [args EXCEPT ![i] = Some(a)]
         /\ factory_args' = [factory_args EXCEPT ![i] = Some(FactoryArgs(a))]
    /\ timestamp' = [timestamp EXCEPT ![i] = Some(clock)]
    /\ slot' = [slot EXCEPT ![i] = Some(SlotOf(clock))]
    /\ pc' = [pc EXCEPT ![i] = "create_inherent_data_providers"]
    /\ self' = [self EXCEPT ![i].aura_worker = @ + 1]
    /\ UNCHANGED << clock, ticks, cidp, cid, info, mutex,
                    on_slot_calls, lock_count, future, result, provided,
                    dispatches, new_calls, engines_built,
                    ext, currency >>

\* Each invocation builds a worker of its own before it starts.
produce_candidate_Start_Rebuild(i) ==
    /\ pc[i] = "idle"
    /\ clock >= 0
    /\ \E a \in CallArgs :
         /\ args' = [args EXCEPT ![i] = Some(a)]
         /\ factory_args' = [factory_args EXCEPT ![i] = Some(FactoryArgs(a))]
    /\ timestamp' = [timestamp EXCEPT ![i] = Some(clock)]
    /\ slot' = [slot EXCEPT ![i] = Some(SlotOf(clock))]
    /\ pc' = [pc EXCEPT ![i] = "create_inherent_data_providers"]
    /\ engines_built' = engines_built + 1
    /\ UNCHANGED << clock, ticks, cidp, cid, info, mutex,
                    on_slot_calls, lock_count, future, result, provided,
                    self, dispatches, new_calls,
                    ext, currency >>

\* lines 203-212, first poll: read the clock, evaluate `slot`, call the
\* provider factory and suspend on it.
produce_candidate_Start(i) ==
    /\ pc[i] = "idle"
    /\ clock >= 0
    /\ \E a \in CallArgs :
         /\ args' = [args EXCEPT ![i] = Some(a)]
         /\ factory_args' = [factory_args EXCEPT ![i] = Some(FactoryArgs(a))]
    /\ timestamp' = [timestamp EXCEPT ![i] = Some(clock)]
    /\ slot' = [slot EXCEPT ![i] = Some(SlotOf(clock))]
    /\ pc' = [pc EXCEPT ![i] = "create_inherent_data_providers"]
    /\ UNCHANGED << clock, ticks, cidp, cid, info, mutex,
                    on_slot_calls, lock_count, future, result, provided, wiring,
                    ext, currency >>

\* The invocation returns `r`; its frame (arguments and locals) is dropped.
Return(i, r) ==
    /\ pc' = [pc EXCEPT ![i] = "done"]
    /\ result' = [result EXCEPT ![i] = r]
    /\ args' = [args EXCEPT ![i] = None]
    /\ timestamp' = [timestamp EXCEPT ![i] = None]
    /\ slot' = [slot EXCEPT ![i] = None]
    /\ info' = [info EXCEPT ![i] = None]
    /\ factory_args' = [factory_args EXCEPT ![i] = None]
    /\ provided' = [provided EXCEPT ![i] = None]

\* The factory's error is logged but not propagated: the invocation goes on
\* with an empty provider set.
create_inherent_data_providers_Err_Ignored(i) ==
    /\ pc[i] = "create_inherent_data_providers"
    /\ cidp' = [cidp EXCEPT ![i] = "Err"]
    /\ info' = [info EXCEPT ![i] =
                  Some(SlotInfo(Unwrap(slot[i]), "Empty", Unwrap(args[i]).parent,
                                Unwrap(timestamp[i]), clock))]
    /\ factory_args' = [factory_args EXCEPT ![i] = None]
    /\ pc' = [pc EXCEPT ![i] = "lock"]
    /\ UNCHANGED << clock, ticks, args, timestamp, slot, cid, mutex,
                    on_slot_calls, lock_count, future, result, provided, wiring,
                    ext, currency >>

\* lines 162-173 and 212: the factory resolves with an error; it is logged,
\* inherent_data returns None and `?` returns None from produce_candidate.
create_inherent_data_providers_Err(i) ==
    /\ pc[i] = "create_inherent_data_providers"
    /\ cidp' = [cidp EXCEPT ![i] = "Err"]
    /\ Return(i, None)
    /\ UNCHANGED << clock, ticks, cid, mutex, on_slot_calls, lock_count, future, wiring,
                    ext, currency >>

\* The materialization error is replaced by an empty bag (unwrap_or_default).
create_inherent_data_Err_Default(i) ==
    /\ pc[i] = "create_inherent_data_providers"
    /\ cidp' = [cidp EXCEPT ![i] = "Ok"]
    /\ cid' = [cid EXCEPT ![i] = "Err"]
    /\ info' = [info EXCEPT ![i] =
                  Some(SlotInfo(Unwrap(slot[i]), "Empty", Unwrap(args[i]).parent,
                                Unwrap(timestamp[i]), clock))]
    /\ factory_args' = [factory_args EXCEPT ![i] = None]
    /\ pc' = [pc EXCEPT ![i] = "lock"]
    /\ UNCHANGED << clock, ticks, args, timestamp, slot, mutex,
                    on_slot_calls, lock_count, future, result, provided, wiring,
                    ext, currency >>

\* lines 175-185 and 212: the factory resolves with a provider set whose
\* create_inherent_data fails; logged, None, `?` returns None.
create_inherent_data_Err(i) ==
    /\ pc[i] = "create_inherent_data_providers"
    /\ cidp' = [cidp EXCEPT ![i] = "Ok"]
    /\ cid' = [cid EXCEPT ![i] = "Err"]
    /\ Return(i, None)
    /\ UNCHANGED << clock, ticks, mutex, on_slot_calls, lock_count, future, wiring,
                    ext, currency >>

\* The slot is computed when the SlotInfo is built, after the assembly.
inherent_data_Ok_LateSlot(i) ==
    /\ pc[i] = "create_inherent_data_providers"
    /\ cidp' = [cidp EXCEPT ![i] = "Ok"]
    /\ cid' = [cid EXCEPT ![i] = "Ok"]
    /\ \E d \in InherentDatas :
         /\ provided' = [provided EXCEPT ![i] = Some(d)]
         /\ info' = [info EXCEPT ![i] =
                      Some(SlotInfo(SlotOf(clock), d, Unwrap(args[i]).parent,
                                    Unwrap(timestamp[i]), clock))]
    /\ factory_args' = [factory_args EXCEPT ![i] = None]
    /\ pc' = [pc EXCEPT ![i] = "lock"]
    /\ UNCHANGED << clock, ticks, args, timestamp, slot, mutex,
                    on_slot_calls, lock_count, future, result, wiring,
                    ext, currency >>

\* The timestamp is read again when the SlotInfo is built.
inherent_data_Ok_LateTimestamp(i) ==
    /\ pc[i] = "create_inherent_data_providers"
    /\ cidp' = [cidp EXCEPT ![i] = "Ok"]
    /\ cid' = [cid EXCEPT ![i] = "Ok"]
    /\ \E d \in InherentDatas :
         /\ provided' = [provided EXCEPT ![i] = Some(d)]
         /\ info' = [info EXCEPT ![i] =
                      Some(SlotInfo(Unwrap(slot[i]), d, Unwrap(args[i]).parent,
                                    clock, clock))]
    /\ factory_args' = [factory_args EXCEPT ![i] = None]
    /\ pc' = [pc EXCEPT ![i] = "lock"]
    /\ UNCHANGED << clock, ticks, args, timestamp, slot, mutex,
                    on_slot_calls, lock_count, future, result, wiring,
                    ext, currency >>

\* The materialized bag is dropped and a fresh InherentData is returned.
inherent_data_Ok_EmptyBag(i) ==
    /\ pc[i] = "create_inherent_data_providers"
    /\ cidp' = [cidp EXCEPT ![i] = "Ok"]
    /\ cid' = [cid EXCEPT ![i] = "Ok"]
    /\ \E d \in InherentDatas :
         /\ provided' = [provided EXCEPT ![i] = Some(d)]
         /\ info' = [info EXCEPT ![i] =
                      Some(SlotInfo(Unwrap(slot[i]), "Empty", Unwrap(args[i]).parent,
                                    Unwrap(timestamp[i]), clock))]
    /\ factory_args' = [factory_args EXCEPT ![i] = None]
    /\ pc' = [pc EXCEPT ![i] = "lock"]
    /\ UNCHANGED << clock, ticks, args, timestamp, slot, mutex,
                    on_slot_calls, lock_count, future, result, wiring,
                    ext, currency >>

\* chain_head is the parent of whichever invocation is running.
inherent_data_Ok_SharedHead(i) ==
    /\ pc[i] = "create_inherent_data_providers"
    /\ cidp' = [cidp EXCEPT ![i] = "Ok"]
    /\ cid' = [cid EXCEPT ![i] = "Ok"]
    /\ \E d \in InherentDatas, j \in { k \in Inv : IsSome(args[k]) } :
         /\ provided' = [provided EXCEPT ![i] = Some(d)]
         /\ info' = [info EXCEPT ![i] =
                      Some(SlotInfo(Unwrap(slot[i]), d, Unwrap(args[j]).parent,
                                    Unwrap(timestamp[i]), clock))]
    /\ factory_args' = [factory_args EXCEPT ![i] = None]
    /\ pc' = [pc EXCEPT ![i] = "lock"]
    /\ UNCHANGED << clock, ticks, args, timestamp, slot, mutex,
                    on_slot_calls, lock_count, future, result, wiring,
                    ext, currency >>

\* lines 162-185 and 210-216: both phases succeed; the remaining fields of
\* the SlotInfo literal are evaluated, ends_at from the clock as it is now.
inherent_data_Ok(i) ==
    /\ pc[i] = "create_inherent_data_providers"
    /\ cidp' = [cidp EXCEPT ![i] = "Ok"]
    /\ cid' = [cid EXCEPT ![i] = "Ok"]
    /\ \E d \in InherentDatas :
         /\ provided' = [provided EXCEPT ![i] = Some(d)]
         /\ info' = [info EXCEPT ![i] =
                      Some(SlotInfo(Unwrap(slot[i]), d, Unwrap(args[i]).parent,
                                    Unwrap(timestamp[i]), clock))]
    /\ factory_args' = [factory_args EXCEPT ![i] = None]
    /\ pc' = [pc EXCEPT ![i] = "lock"]
    /\ UNCHANGED << clock, ticks, args, timestamp, slot, mutex,
                    on_slot_calls, lock_count, future, result, wiring,
                    ext, currency >>

\* on_slot is called twice under the one guard.
on_slot_Call_Twice(i) ==
    /\ pc[i] = "lock"
    /\ mutex[self[i].aura_worker] = Unlocked
    /\ mutex' = [mutex EXCEPT ![self[i].aura_worker] = i]
    /\ lock_count' = [lock_count EXCEPT ![i] = @ + 1]
    /\ on_slot_calls' = [on_slot_calls EXCEPT ![i] = @ + 2]
    /\ pc' = [pc EXCEPT ![i] = "on_slot"]
    /\ UNCHANGED << clock, ticks, args, timestamp, slot, cidp, cid, info,
                    future, result, factory_args, provided, wiring,
                    ext, currency >>

\* line 218: self.aura_worker.lock() blocks until the mutex behind this
\* value's handle is free, then on_slot(info) is entered with the guard alive.
on_slot_Call(i) ==
    /\ pc[i] = "lock"
    /\ mutex[self[i].aura_worker] = Unlocked
    /\ mutex' = [mutex EXCEPT ![self[i].aura_worker] = i]
    /\ lock_count' = [lock_count EXCEPT ![i] = @ + 1]
    /\ on_slot_calls' = [on_slot_calls EXCEPT ![i] = @ + 1]
    /\ pc' = [pc EXCEPT ![i] = "on_slot"]
    /\ UNCHANGED << clock, ticks, args, timestamp, slot, cidp, cid, info,
                    future, result, factory_args, provided,
                    wiring,
                    ext, currency >>

\* The guard is bound to a variable and lives on while the future is awaited.
on_slot_Return_KeepGuard(i) ==
    /\ pc[i] = "on_slot"
    /\ future' = [future EXCEPT ![i] =
                    [st |-> "pending", info |-> info[i], res |-> None, late |-> FALSE]]
    /\ info' = [info EXCEPT ![i] = None]
    /\ provided' = [provided EXCEPT ![i] = None]
    /\ timestamp' = [timestamp EXCEPT ![i] = None]
    /\ slot' = [slot EXCEPT ![i] = None]
    /\ pc' = [pc EXCEPT ![i] = "await"]
    /\ UNCHANGED << clock, ticks, args, cidp, cid, mutex,
                    on_slot_calls, lock_count, result, factory_args, wiring,
                    ext, currency >>

\* line 218: on_slot returns the boxed future, which owns the SlotInfo; the
\* temporary guard is dropped at the end of the let statement.  The locals
\* `timestamp` and `slot` are not read again, and the bag now lives in the
\* SlotInfo only.
on_slot_Return(i) ==
    /\ pc[i] = "on_slot"
    /\ future' = [future EXCEPT ![i] =
                    [st |-> "pending", info |-> info[i], res |-> None, late |-> FALSE]]
    /\ info' = [info EXCEPT ![i] = None]
    /\ provided' = [provided EXCEPT ![i] = None]
    /\ timestamp' = [timestamp EXCEPT ![i] = None]
    /\ slot' = [slot EXCEPT ![i] = None]
    /\ mutex' = [mutex EXCEPT ![self[i].aura_worker] = Unlocked]
    /\ pc' = [pc EXCEPT ![i] = "await"]
    /\ UNCHANGED << clock, ticks, args, cidp, cid,
                    on_slot_calls, lock_count, result, factory_args, wiring,
                    ext, currency >>

\* The worker's future resolves: Some(SlotResult) or None.  The SlotInfo it
\* owned is discarded; `late` keeps whether its ends_at had passed.
future_Resolve(i) ==
    /\ future[i].st = "pending"
    /\ \E r \in {None} \cup {Some(x) : x \in SlotResults} :
         future' = [future EXCEPT ![i] =
                      [st |-> "ready", info |-> None, res |-> r,
                       late |-> clock > Unwrap(future[i].info).ends_at]]
    /\ UNCHANGED << clock, ticks, pc, args, timestamp, slot, cidp, cid, info,
                    mutex, on_slot_calls, lock_count, result, factory_args, provided,
                    wiring,
                    ext, currency >>

\* None from the worker is turned into an empty candidate instead of None.
produce_candidate_None_Default(i) ==
    /\ pc[i] = "await"
    /\ future[i].st = "ready"
    /\ ~IsSome(future[i].res)
    /\ Return(i, Some([block |-> "B0", proof |-> "P0"]))
    /\ UNCHANGED << clock, ticks, cidp, cid, mutex, on_slot_calls, lock_count, future, wiring,
                    ext, currency >>

\* line 219: future.await yields None and `?` returns None.
produce_candidate_None(i) ==
    /\ pc[i] = "await"
    /\ future[i].st = "ready"
    /\ ~IsSome(future[i].res)
    /\ Return(i, None)
    /\ UNCHANGED << clock, ticks, cidp, cid, mutex, on_slot_calls, lock_count, future, wiring,
                    ext, currency >>

\* The result is read from a slot shared by all clones: whichever attempt
\* has resolved with a block is returned.
produce_candidate_Some_Shared(i) ==
    /\ pc[i] = "await"
    /\ future[i].st = "ready"
    /\ IsSome(future[i].res)
    /\ \E j \in Inv :
         /\ future[j].st = "ready"
         /\ IsSome(future[j].res)
         /\ Return(i, Some(ParachainCandidate(Unwrap(future[j].res))))
    /\ UNCHANGED << clock, ticks, cidp, cid, mutex, on_slot_calls, lock_count, future, wiring,
                    ext, currency >>

\* A result that arrives after ends_at is dropped.
produce_candidate_Some_Timeout(i) ==
    /\ pc[i] = "await"
    /\ future[i].st = "ready"
    /\ IsSome(future[i].res)
    /\ Return(i, IF future[i].late THEN None
                 ELSE Some(ParachainCandidate(Unwrap(future[i].res))))
    /\ UNCHANGED << clock, ticks, cidp, cid, mutex, on_slot_calls, lock_count, future, wiring,
                    ext, currency >>

\* lines 219-224: future.await yields Some(res); wrap it.
produce_candidate_Some(i) ==
    /\ pc[i] = "await"
    /\ future[i].st = "ready"
    /\ IsSome(future[i].res)
    /\ Return(i, Some(ParachainCandidate(Unwrap(future[i].res))))
    /\ UNCHANGED << clock, ticks, cidp, cid, mutex, on_slot_calls, lock_count, future, wiring,
                    ext, currency >>

Step(i) ==
    \/ produce_candidate_Panic(i)
    \/ produce_candidate_Start(i)
    \/ create_inherent_data_providers_Err(i)
    \/ create_inherent_data_Err(i)
    \/ inherent_data_Ok(i)
    \/ on_slot_Call(i)
    \/ on_slot_Return(i)
    \/ future_Resolve(i)
    \/ produce_candidate_None(i)
    \/ produce_candidate_Some(i)

Next ==
    \/ build
    \/ \E i, j \in Inv : clone(i, j)
    \/ Tick
    \/ \E i \in Inv : Step(i)

Spec == Init /\ [][Next]_vars

\* Every step of an invoked produce_candidate, every provider call and every
\* attempt eventually happens; the clock and the caller are not forced.
FairSpec ==
    /\ Spec
    /\ \A i \in Inv :
         /\ WF_vars(create_inherent_data_providers_Err(i)
                      \/ create_inherent_data_Err(i) \/ inherent_data_Ok(i))
         /\ WF_vars(on_slot_Call(i))
         /\ WF_vars(on_slot_Return(i))
         /\ WF_vars(future_Resolve(i))
         /\ WF_vars(produce_candidate_None(i) \/ produce_candidate_Some(i))

\* ------------------------------------------------------- runtime: the codec
\* A buffer is the sequence of the SCALE-encoded fields of a value, one
\* element for each integer or account field; an enum is its variant index
\* followed by the fields of the variant.  decode reads the fields it needs
\* from the front and ignores what follows.

\* contract_assets_adapter.rs lines 29-35: derive(Encode)
AssetId_encode(a) ==
    IF a.variant = "Module"
    THEN << 0, a.chain_id, a.module_index, a.asset_index >>
    ELSE << 1, a.address >>

\* number of elements the AssetId at the front of data takes
AssetId_len(data) == IF data[1] = 0 THEN 4 ELSE 2

\* contract_assets_adapter.rs lines 29-35: derive(Decode)
AssetId_decode(data) ==
    IF Len(data) >= 4 /\ data[1] = 0 THEN Some(Module(data[2], data[3], data[4]))
    ELSE IF Len(data) >= 2 /\ data[1] = 1 THEN Some(Local(data[2]))
    ELSE None

\* chain_extension.rs lines 23-28
XcmParameter_decode(data) ==
    IF Len(data) >= 3
    THEN Some([from |-> data[1], target_chain_id |-> data[2], amount |-> data[3]])
    ELSE None

\* chain_extension.rs lines 31-36
TransferParameter_decode(data) ==
    IF ~IsSome(AssetId_decode(data)) \/ Len(data) < AssetId_len(data) + 2
    THEN None
    ELSE Some([ asset_id |-> Unwrap(AssetId_decode(data)),
                to |-> data[AssetId_len(data) + 1],
                amount |-> data[AssetId_len(data) + 2] ])

\* chain_extension.rs lines 37-41
BalancesOfParameter_decode(data) ==
    IF ~IsSome(AssetId_decode(data)) \/ Len(data) < AssetId_len(data) + 1
    THEN None
    ELSE Some([ asset_id |-> Unwrap(AssetId_decode(data)),
                owner |-> data[AssetId_len(data) + 1] ])

\* lines 97 and 111: balance.encode() of a u128, one field
u128_encode(n) == << n >>

\* mem::size_of of the parameter structs, counted in fields: the widest
\* layout of each (variant index and three fields for the AssetId)
SizeOf_XcmParameter == 3
SizeOf_TransferParameter == 6
SizeOf_BalancesOfParameter == 5

\* env.read(max_len): the input buffer, cut to max_len
read(data, max_len) ==
    SubSeq(data, 1, IF Len(data) < max_len THEN Len(data) ELSE max_len)

\* caller.as_ref(): the 32 bytes of an AccountId32
as_ref(account) == [bytes |-> account, len |-> 32]

\* lines 43-45: AccountId32::try_from(account).unwrap(), which needs 32 bytes
to_account_id(account) ==
    IF account.len = 32 THEN Some(account.bytes) ELSE None

\* ------------------------------------------------------ runtime: currencies

\* The discriminant 3 is taken for DOT too.
TokenSymbol_try_from_Alias(v) ==
    IF \E row \in create_currency_id : row.val = v
    THEN Ok((CHOOSE row \in create_currency_id : row.val = v).symbol)
    ELSE IF v = 3 THEN Ok("DOT") ELSE Err("()")

\* currency.rs lines 42-51: one arm for each row, Err(()) otherwise
TokenSymbol_try_from(v) ==
    IF \E row \in create_currency_id : row.val = v
    THEN Ok((CHOOSE row \in create_currency_id : row.val = v).symbol)
    ELSE Err("()")

\* currency.rs lines 53-59
TokenSymbol_into(s) ==
    (CHOOSE row \in create_currency_id : row.symbol = s).val

\* `as u8` of a u32 (contract_assets_adapter.rs lines 70, 97, 130)
AsU8(n) == n % 256

RECURSIVE SumOver(_, _)
SumOver(f, S) ==
    IF S = {} THEN 0
    ELSE LET a == CHOOSE x \in S : TRUE IN f[a] + SumOver(f, S \ {a})

\* pallet_balances: Currency::transfer under ExistenceRequirement::KeepAlive
\* (line 126).  Nothing moves when it fails.
Balances_transfer(free, from, to, amount) ==
    IF amount = 0 \/ from = to THEN [res |-> Ok("()"), free |-> free]
    ELSE IF free[from] < amount
    THEN [res |-> Err("InsufficientBalance"), free |-> free]
    ELSE IF free[to] + amount < ExistentialDeposit
    THEN [res |-> Err("ExistentialDeposit"), free |-> free]
    ELSE IF free[from] - amount < ExistentialDeposit
    THEN [res |-> Err("KeepAlive"), free |-> free]
    ELSE [ res |-> Ok("()"),
           free |-> [free EXCEPT ![from] = @ - amount, ![to] = @ + amount] ]

\* orml_tokens: MultiCurrency::transfer (line 133); the existential deposit
\* of every token is zero (runtime/src/lib.rs lines 370-374).
Tokens_transfer(tok, symbol, from, to, amount) ==
    IF amount = 0 \/ from = to THEN [res |-> Ok("()"), tokens |-> tok]
    ELSE IF tok[symbol][from] < amount
    THEN [res |-> Err("BalanceTooLow"), tokens |-> tok]
    ELSE [ res |-> Ok("()"),
           tokens |-> [tok EXCEPT ![symbol][from] = @ - amount,
                                  ![symbol][to] = @ + amount] ]

\* the issuance is what the accounts hold
Balances_total_issuance(free) == SumOver(free, Accounts)
Tokens_total_issuance(tok, symbol) == SumOver(tok[symbol], Accounts)

\* ------------------------------------------------ runtime: the asset adapter

\* The transfer does not look at the chain id of the asset.
multi_asset_transfer_AnyChain(pid, free, tok, asset_id, from, to, amount) ==
    IF asset_id.variant = "Local"
    THEN [res |-> Panic, free |-> free, tokens |-> tok, via |-> "none"]
    ELSE IF asset_id.module_index = 1
    THEN [ res |-> Balances_transfer(free, from, to, amount).res,
           free |-> Balances_transfer(free, from, to, amount).free,
           tokens |-> tok, via |-> "Balances" ]
    ELSE IF asset_id.module_index = 2
            /\ IsOk(TokenSymbol_try_from(AsU8(asset_id.asset_index)))
    THEN LET symbol == TokenSymbol_try_from(AsU8(asset_id.asset_index)).ok[1]
         IN [ res |-> Tokens_transfer(tok, symbol, from, to, amount).res,
              free |-> free,
              tokens |-> Tokens_transfer(tok, symbol, from, to, amount).tokens,
              via |-> "Tokens" ]
    ELSE [ res |-> Err("unknown asset id"), free |-> free, tokens |-> tok,
           via |-> "none" ]

\* contract_assets_adapter.rs lines 112-143.  pid is the parachain id; the
\* result carries the balances afterwards and the pallet the call went to.
multi_asset_transfer(pid, free, tok, asset_id, from, to, amount) ==
    IF asset_id.variant = "Local"
    THEN [res |-> Panic, free |-> free, tokens |-> tok, via |-> "none"]
    ELSE IF pid # asset_id.chain_id
    THEN [ res |-> Err("unknown asset id"), free |-> free, tokens |-> tok,
           via |-> "none" ]
    ELSE IF asset_id.module_index = 1
    THEN [ res |-> Balances_transfer(free, from, to, amount).res,
           free |-> Balances_transfer(free, from, to, amount).free,
           tokens |-> tok, via |-> "Balances" ]
    ELSE IF asset_id.module_index = 2
            /\ IsOk(TokenSymbol_try_from(AsU8(asset_id.asset_index)))
    THEN LET symbol == TokenSymbol_try_from(AsU8(asset_id.asset_index)).ok[1]
         IN [ res |-> Tokens_transfer(tok, symbol, from, to, amount).res,
              free |-> free,
              tokens |-> Tokens_transfer(tok, symbol, from, to, amount).tokens,
              via |-> "Tokens" ]
    ELSE [ res |-> Err("unknown asset id"), free |-> free, tokens |-> tok,
           via |-> "none" ]

\* The balance is looked up without comparing the chain id of the asset.
multi_asset_balance_of_AnyChain(pid, free, tok, asset_id, who) ==
    IF asset_id.variant = "Local"
    THEN [res |-> Panic, val |-> 0, via |-> "none"]
    ELSE IF asset_id.module_index = 1
    THEN [res |-> Ok("()"), val |-> free[who], via |-> "Balances"]
    ELSE IF asset_id.module_index = 2
            /\ IsOk(TokenSymbol_try_from(AsU8(asset_id.asset_index)))
    THEN [ res |-> Ok("()"),
           val |-> tok[TokenSymbol_try_from(AsU8(asset_id.asset_index)).ok[1]][who],
           via |-> "Tokens" ]
    ELSE [res |-> Ok("()"), val |-> 0, via |-> "none"]

\* contract_assets_adapter.rs lines 85-110
multi_asset_balance_of(pid, free, tok, asset_id, who) ==
    IF asset_id.variant = "Local"
    THEN [res |-> Panic, val |-> 0, via |-> "none"]
    ELSE IF pid # asset_id.chain_id
    THEN [res |-> Ok("()"), val |-> 0, via |-> "none"]
    ELSE IF asset_id.module_index = 1
    THEN [res |-> Ok("()"), val |-> free[who], via |-> "Balances"]
    ELSE IF asset_id.module_index = 2
            /\ IsOk(TokenSymbol_try_from(AsU8(asset_id.asset_index)))
    THEN [ res |-> Ok("()"),
           val |-> tok[TokenSymbol_try_from(AsU8(asset_id.asset_index)).ok[1]][who],
           via |-> "Tokens" ]
    ELSE [res |-> Ok("()"), val |-> 0, via |-> "none"]

\* contract_assets_adapter.rs lines 58-83
multi_asset_total_supply(pid, free, tok, asset_id) ==
    IF asset_id.variant = "Local"
    THEN [res |-> Panic, val |-> 0, via |-> "none"]
    ELSE IF pid # asset_id.chain_id
    THEN [res |-> Ok("()"), val |-> 0, via |-> "none"]
    ELSE IF asset_id.module_index = 1
    THEN [res |-> Ok("()"), val |-> Balances_total_issuance(free), via |-> "Balances"]
    ELSE IF asset_id.module_index = 2
            /\ IsOk(TokenSymbol_try_from(AsU8(asset_id.asset_index)))
    THEN [ res |-> Ok("()"),
           val |-> Tokens_total_issuance(
                     tok, TokenSymbol_try_from(AsU8(asset_id.asset_index)).ok[1]),
           via |-> "Tokens" ]
    ELSE [res |-> Ok("()"), val |-> 0, via |-> "none"]

\* ---------------------------------------------------------- runtime: XCM

\* chain_extension.rs lines 128-160: WithdrawAsset of `amount` of the relay
\* chain's asset, then BuyExecution and DepositReserveAsset to parachain
\* para_id, where DepositAsset credits `account`.  _location is not used.
make_xcm_lateral_transfer_native(location, para_id, account, amount) ==
    [ withdraw |-> amount, dest |-> para_id, beneficiary |-> account ]

\* XcmExecutor::execute_xcm(origin, msg, weight).ensure_complete(), line 73.
\* LocalAssetTransactor (runtime/src/lib.rs lines 290-299) withdraws the
\* relay chain's asset from the Balances account the origin aliases
\* (AccountId32Aliases, line 286); the later orders act on the holding
\* register and on the destination, not on an account of the callers.
execute_xcm(free, origin, msg) ==
    IF free[origin] < msg.withdraw
    THEN [res |-> Err("Incomplete"), free |-> free]
    ELSE [res |-> Ok("()"), free |-> [free EXCEPT ![origin] = @ - msg.withdraw]]

\* ------------------------------------------------ runtime: input domains

\* buffers no parameter struct decodes from: empty, or an unknown variant
Malformed == { << >>, << 7 >> }
XcmInputs ==
    { << f, t, a >> : f \in Accounts, t \in ParaIds, a \in Amounts }
      \cup Malformed
TransferInputs ==
    { AssetId_encode(x) \o << t, a >> :
        x \in AssetIds, t \in Accounts, a \in Amounts }
      \cup Malformed
BalancesOfInputs ==
    { AssetId_encode(x) \o << o >> : x \in AssetIds, o \in Accounts }
      \cup Malformed
TotalSupplyInputs ==
    { AssetId_encode(x) : x \in AssetIds }
      \cup { AssetId_encode(Module(c, 1, 2)) \o << 1, 0, 0, 0 >> : c \in ParaIds }
      \cup Malformed
OtherInputs == Malformed \cup { << 1, 100, 500 >> }
\* genesis balances: one endowed account, the others empty
Endowed ==
    { [a \in Accounts |-> IF a = r THEN MaxUnits * ExistentialDeposit ELSE 0] :
        r \in Accounts }

\* ------------------------------------------- runtime: chain-extension calls

\* A contract can call the extension: none of its calls is waiting to be
\* resumed.
Callable == last = "none"

\* The call ends: what the contract and the chain see afterwards.
Ended(c, f, data, rd, out, r, o, free, tok) ==
    /\ last' = "call"
    /\ env' = [ caller |-> c, func_id |-> f, input |-> data, reads |-> rd,
                output |-> out ]
    /\ ret' = r
    /\ op' = o
    /\ free_balance' = free
    /\ tokens' = tok
    /\ UNCHANGED << parachain_id, node, currency >>

\* lines 53-76: func_id 1101.  A buffer that does not decode makes unwrap
\* panic.  The origin and the beneficiary are params.from.
call_1101(c, data) ==
    /\ Callable
    /\ LET params == XcmParameter_decode(read(data, SizeOf_XcmParameter)) IN
       IF ~IsSome(params)
       THEN Ended(c, 1101, data, 1, << >>, Panic, NoOp, free_balance, tokens)
       ELSE LET origin == Unwrap(params).from
                xcm_msg == make_xcm_lateral_transfer_native(
                             origin, Unwrap(params).target_chain_id,
                             Unwrap(params).from, Unwrap(params).amount)
                x == execute_xcm(free_balance, origin, xcm_msg)
            IN Ended(c, 1101, data, 1, << >>,
                     IF IsOk(x.res) THEN Ok(Converging(0))
                     ELSE Err("ChainExtension failed to call total_supply"),
                     [ NoOp EXCEPT !.name = "execute_xcm", !.from = origin,
                                   !.to = xcm_msg.beneficiary,
                                   !.amount = xcm_msg.withdraw,
                                   !.dest = xcm_msg.dest,
                                   !.via = "Balances", !.res = x.res ],
                     x.free, tokens)

\* The account to debit is read from the input buffer, where `to` stands.
call_1102_FromInput(c, data) ==
    /\ Callable
    /\ LET who == to_account_id(as_ref(c))
           params == TransferParameter_decode(read(data, SizeOf_TransferParameter))
       IN
       IF ~IsSome(who)
       THEN Ended(c, 1102, data, 0, << >>, Panic, NoOp, free_balance, tokens)
       ELSE IF ~IsSome(params)
       THEN Ended(c, 1102, data, 1, << >>,
                  Err("ChainExtension failed to call balance of"), NoOp,
                  free_balance, tokens)
       ELSE LET p == Unwrap(params)
                t == multi_asset_transfer(parachain_id, free_balance, tokens,
                                          p.asset_id, p.to, Unwrap(who), p.amount)
            IN Ended(c, 1102, data, 1, << >>,
                     IF IsOk(t.res) THEN Ok(Converging(0))
                     ELSE IF t.res = Panic THEN Panic ELSE Err(t.res.err[1]),
                     [ NoOp EXCEPT !.name = "multi_asset_transfer",
                                   !.asset_id = << p.asset_id >>,
                                   !.from = p.to, !.to = Unwrap(who),
                                   !.amount = p.amount, !.via = t.via,
                                   !.res = t.res ],
                     t.free, t.tokens)

\* lines 77-87: func_id 1102.  `who` is the caller; a buffer that cannot be
\* read or decoded is an error; the error of the transfer is passed on.
call_1102(c, data) ==
    /\ Callable
    /\ LET who == to_account_id(as_ref(c))
           params == TransferParameter_decode(read(data, SizeOf_TransferParameter))
       IN
       IF ~IsSome(who)
       THEN Ended(c, 1102, data, 0, << >>, Panic, NoOp, free_balance, tokens)
       ELSE IF ~IsSome(params)
       THEN Ended(c, 1102, data, 1, << >>,
                  Err("ChainExtension failed to call balance of"), NoOp,
                  free_balance, tokens)
       ELSE LET p == Unwrap(params)
                t == multi_asset_transfer(parachain_id, free_balance, tokens,
                                          p.asset_id, Unwrap(who), p.to, p.amount)
            IN Ended(c, 1102, data, 1, << >>,
                     IF IsOk(t.res) THEN Ok(Converging(0))
                     ELSE IF t.res = Panic THEN Panic ELSE Err(t.res.err[1]),
                     [ NoOp EXCEPT !.name = "multi_asset_transfer",
                                   !.asset_id = << p.asset_id >>,
                                   !.from = Unwrap(who), !.to = p.to,
                                   !.amount = p.amount, !.via = t.via,
                                   !.res = t.res ],
                     t.free, t.tokens)

\* lines 88-101: func_id 1104.  A buffer that does not decode gives the
\* balance zero; env.write can fail (`writable` is false).
call_1104(c, data, writable) ==
    /\ Callable
    /\ LET params == BalancesOfParameter_decode(
                       read(data, SizeOf_BalancesOfParameter))
           b == IF IsSome(params)
                THEN multi_asset_balance_of(parachain_id, free_balance, tokens,
                                            Unwrap(params).asset_id,
                                            Unwrap(params).owner)
                ELSE [res |-> Ok("()"), val |-> 0, via |-> "none"]
           o == IF IsSome(params)
                THEN [ NoOp EXCEPT !.name = "multi_asset_balance_of",
                                   !.asset_id = << Unwrap(params).asset_id >>,
                                   !.from = Unwrap(params).owner,
                                   !.via = b.via, !.res = b.res, !.val = b.val ]
                ELSE NoOp
       IN
       IF b.res = Panic
       THEN Ended(c, 1104, data, 1, << >>, Panic, o, free_balance, tokens)
       ELSE IF ~writable
       THEN Ended(c, 1104, data, 1, << >>,
                  Err("ChainExtension failed to call balance of"), o,
                  free_balance, tokens)
       ELSE Ended(c, 1104, data, 1, u128_encode(b.val), Ok(Converging(0)), o,
                  free_balance, tokens)

\* lines 102-114: func_id 1105.  It reads as much as a TransferParameter and
\* decodes an AssetId from the front.
call_1105(c, data, writable) ==
    /\ Callable
    /\ LET asset_id == AssetId_decode(read(data, SizeOf_TransferParameter))
           b == IF IsSome(asset_id)
                THEN multi_asset_total_supply(parachain_id, free_balance, tokens,
                                              Unwrap(asset_id))
                ELSE [res |-> Ok("()"), val |-> 0, via |-> "none"]
           o == IF IsSome(asset_id)
                THEN [ NoOp EXCEPT !.name = "multi_asset_total_supply",
                                   !.asset_id = asset_id,
                                   !.via = b.via, !.res = b.res, !.val = b.val ]
                ELSE NoOp
       IN
       IF b.res = Panic
       THEN Ended(c, 1105, data, 1, << >>, Panic, o, free_balance, tokens)
       ELSE IF ~writable
       THEN Ended(c, 1105, data, 1, << >>,
                  Err("ChainExtension failed to call total_supply"), o,
                  free_balance, tokens)
       ELSE Ended(c, 1105, data, 1, u128_encode(b.val), Ok(Converging(0)), o,
                  free_balance, tokens)

\* An unknown func_id is answered like a call that did nothing.
call_unknown_Converging(c, f, data) ==
    /\ Callable
    /\ Ended(c, f, data, 0, << >>, Ok(Converging(0)), NoOp, free_balance, tokens)

\* lines 115-118: any other func_id.  The environment is not touched.
call_unknown(c, f, data) ==
    /\ Callable
    /\ Ended(c, f, data, 0, << >>, Err("unknown chain extension"), NoOp,
             free_balance, tokens)

\* The contract, or after a panic the chain, goes on; what the call
\* returned is consumed.
resume ==
    /\ last = "call"
    /\ last' = "none"
    /\ env' = NoEnv
    /\ ret' = NoRet
    /\ op' = NoOp
    /\ UNCHANGED << parachain_id, free_balance, tokens, node, currency >>

\* Genesis: the para id and the balances are configuration.
ExtInit ==
    /\ NodeInit({0})
    /\ CurrencyOff
    /\ parachain_id = SelfParaId
    /\ free_balance \in Endowed
    /\ tokens \in [TokenSymbols -> Endowed]
    /\ last = "none"
    /\ env = NoEnv
    /\ ret = NoRet
    /\ op = NoOp

ExtNext ==
    \/ \E c \in Accounts, data \in XcmInputs : call_1101(c, data)
    \/ \E c \in Accounts, data \in TransferInputs : call_1102(c, data)
    \/ \E c \in Accounts, data \in BalancesOfInputs, writable \in BOOLEAN :
         call_1104(c, data, writable)
    \/ \E c \in Accounts, data \in TotalSupplyInputs, writable \in BOOLEAN :
         call_1105(c, data, writable)
    \/ \E c \in Accounts, f \in OtherFuncIds, data \in OtherInputs :
         call_unknown(c, f, data)
    \/ resume

ExtSpec == ExtInit /\ [][ExtNext]_vars

\* ------------------------------------------- primitives: TokenSymbol and u8

\* TokenSymbol::try_from(byte_in)
try_from ==
    /\ tried = None
    /\ tried' = Some(TokenSymbol_try_from(byte_in))
    /\ UNCHANGED << byte_in, sym_in, back, round, node, ext >>

\* the symbol try_from gave, converted with into()
into ==
    /\ IsSome(tried)
    /\ IsOk(Unwrap(tried))
    /\ back = None
    /\ back' = Some(TokenSymbol_into(Unwrap(tried).ok[1]))
    /\ UNCHANGED << byte_in, sym_in, tried, round, node, ext >>

\* TokenSymbol::try_from(sym_in.into())
into_try_from ==
    /\ round = None
    /\ round' = Some(TokenSymbol_try_from(TokenSymbol_into(sym_in)))
    /\ UNCHANGED << byte_in, sym_in, tried, back, node, ext >>

CurrencyInit ==
    /\ NodeInit({0})
    /\ ExtOff
    /\ byte_in \in U8
    /\ sym_in \in TokenSymbols
    /\ tried = None
    /\ back = None
    /\ round = None

CurrencyNext == try_from \/ into \/ into_try_from

CurrencySpec == CurrencyInit /\ [][CurrencyNext]_vars

\* ------------------------------------------------------------ derived state

\* The attempt of invocation i is active: on_slot has returned its future
\* and the future has not resolved.
AttemptActive(i) == future[i].st = "pending"

\* The SlotInfo values handed to the worker and still alive: the argument of
\* an on_slot call in progress, or owned by a pending future.
HandedInfo ==
    { Unwrap(info[i]) : i \in { k \in Inv : pc[k] = "on_slot" } }
      \cup { Unwrap(future[i].info) : i \in { k \in Inv : AttemptActive(k) } }

Returned(i) == pc[i] = "done"

\* Invocation i holds the guard of a worker mutex.
Holds(i) == \E w \in Workers : mutex[w] = i

\* ------------------------------------------------------------------- claims

\* C1: mutual exclusion of attempts - the future returned by on_slot is never
\* pending for two invocations at the same time.
C1_AttemptMutualExclusion ==
    \A i, j \in Inv : i # j => ~(AttemptActive(i) /\ AttemptActive(j))

\* C2: when create_inherent_data_providers fails in an invocation, that
\* invocation returns None, the worker got no on_slot call from it and it
\* never acquired the mutex.
C2_ProviderCreationFailure ==
    \A i \in Inv :
        cidp[i] = "Err" =>
            /\ Returned(i)
            /\ result[i] = None
            /\ on_slot_calls[i] = 0
            /\ lock_count[i] = 0
            /\ future[i].st = "none"

C2_Witness ==
    \E i, j \in Inv :
        /\ cidp[i] = "Err" /\ Returned(i)
        /\ on_slot_calls[j] = 1

\* C3: when provider creation succeeds and create_inherent_data fails, the
\* invocation returns None and the worker got no on_slot call from it.
C3_MaterializationFailure ==
    \A i \in Inv :
        (cidp[i] = "Ok" /\ cid[i] = "Err") =>
            /\ Returned(i)
            /\ result[i] = None
            /\ on_slot_calls[i] = 0
            /\ lock_count[i] = 0
            /\ future[i].st = "none"

C3_Witness ==
    \E i, j \in Inv :
        /\ cidp[i] = "Ok" /\ cid[i] = "Err" /\ Returned(i)
        /\ on_slot_calls[j] = 1

\* C4: identity-preserving passthrough - once the future of an invocation
\* has resolved with Some(block, storage_proof), that invocation returns
\* nothing else than the candidate with exactly that block and proof, also
\* when another invocation's future resolved with a different result.
C4_Passthrough ==
    \A i \in Inv :
        (future[i].st = "ready" /\ IsSome(future[i].res)) =>
            IF Returned(i)
            THEN result[i] = Some([ block |-> Unwrap(future[i].res).block,
                                    proof |-> Unwrap(future[i].res).storage_proof ])
            ELSE result[i] = None

C4_Witness ==
    \E i, j \in Inv :
        /\ Returned(i) /\ Returned(j)
        /\ result[i] = Some([block |-> "B123", proof |-> "P1"])
        /\ result[j] = Some([block |-> "B456", proof |-> "P2"])

\* C5: when the future of an invocation resolves with None the invocation
\* returns None; a candidate is returned only after both phases of the
\* inherent-data assembly succeeded and the worker resolved with a result.
C5_AbsencePassthrough ==
    \A i \in Inv :
        /\ (Returned(i) /\ future[i].st = "ready" /\ ~IsSome(future[i].res))
              => result[i] = None
        /\ IsSome(result[i]) =>
              /\ Returned(i)
              /\ cidp[i] = "Ok" /\ cid[i] = "Ok"
              /\ future[i].st = "ready" /\ IsSome(future[i].res)

C5_Witness ==
    \E i \in Inv :
        /\ Returned(i)
        /\ cidp[i] = "Ok" /\ cid[i] = "Ok"
        /\ future[i].st = "ready" /\ ~IsSome(future[i].res)
        /\ result[i] = None

\* C6: the slot of every SlotInfo handed to the worker is the timestamp in
\* ms divided by 12000 and rounded down, it is non-decreasing in the
\* timestamp, and a timestamp of 36005 ms gives slot 3.
C6_SlotIndex ==
    /\ \A d \in HandedInfo :
          /\ d.timestamp >= 0
          /\ d.slot = d.timestamp \div 12000
          /\ d.timestamp = 36005 => d.slot = 3
    /\ \A d, e \in HandedInfo : d.timestamp <= e.timestamp => d.slot <= e.slot

C6_Witness ==
    \E d, e \in HandedInfo :
        /\ d.timestamp = 36005 /\ d.slot = 3
        /\ e.timestamp > d.timestamp /\ e.slot > d.slot

C8_NoFatalError ==
    \A i \in Inv : pc[i] # "panicked"

\* C9: while the attempt of an invocation is in flight, that invocation
\* holds the mutex of the worker.
C9_AttemptHoldsGate ==
    \A i \in Inv : AttemptActive(i) => Holds(i)

\* C10: every invocation that was started eventually returns, a candidate
\* or None.
C10_EveryInvocationReturns ==
    \A i \in Inv : (pc[i] \notin {"absent", "idle"}) ~> Returned(i)

\* C11: the mutex is held only while an on_slot call runs, at most once per
\* invocation: never during the provider call or the materialization, never
\* after the invocation returned; so while one invocation is stalled in its
\* provider call another one that waits for the mutex can take it as soon
\* as no on_slot call is running.
C11_GateOnlyDuringOnSlot ==
    /\ \A i \in Inv :
          /\ Holds(i) => (pc[i] = "on_slot" /\ lock_count[i] = 1)
          /\ pc[i] \in {"create_inherent_data_providers", "done"} => ~Holds(i)
    /\ \A i, j \in Inv :
          ( /\ pc[i] = "create_inherent_data_providers"
            /\ pc[j] = "lock"
            /\ \A k \in Inv : pc[k] # "on_slot" )
              => ENABLED on_slot_Call(j)

C11_Witness ==
    \E i, j \in Inv :
        /\ pc[i] = "create_inherent_data_providers"
        /\ pc[j] = "on_slot"
        /\ Holds(j)

C13_OneOnSlotCall ==
    \A i \in Inv :
        /\ on_slot_calls[i] <= 1
        /\ on_slot_calls[i] = 1 => (cidp[i] = "Ok" /\ cid[i] = "Ok")
        /\ pc[i] \in {"on_slot", "await"} => on_slot_calls[i] = 1
        /\ (Returned(i) /\ cid[i] = "Ok") => on_slot_calls[i] = 1
        /\ IsSome(result[i]) => on_slot_calls[i] = 1

C13_Witness ==
    \E i, j \in Inv :
        /\ Returned(i) /\ IsSome(result[i]) /\ on_slot_calls[i] = 1
        /\ Returned(j) /\ cid[j] = "Err" /\ on_slot_calls[j] = 0

\* C14: inherent_data gives a bag exactly when provider creation and
\* materialization both succeed, and it is the bag the provider set
\* materialized; create_inherent_data is called only after the factory
\* succeeded.
C14_Assemble ==
    \A i \in Inv :
        /\ cidp[i] = "Err" => cid[i] = "NotCalled"
        /\ cid[i] # "NotCalled" => cidp[i] = "Ok"
        /\ (cidp[i] = "Err" \/ cid[i] = "Err") =>
              (~IsSome(info[i]) /\ ~IsSome(provided[i]) /\ future[i].st = "none")
        /\ IsSome(info[i]) =>
              /\ cidp[i] = "Ok" /\ cid[i] = "Ok"
              /\ IsSome(provided[i])
              /\ Unwrap(info[i]).inherent_data = Unwrap(provided[i])
        /\ (cidp[i] = "Ok" /\ cid[i] = "Ok") =>
              /\ pc[i] \in {"lock", "on_slot", "await", "done"}
              /\ pc[i] \in {"lock", "on_slot"} => IsSome(info[i])
              /\ pc[i] \in {"await", "done"} => future[i].st # "none"

C14_Witness ==
    \E i, j \in Inv :
        /\ IsSome(info[i]) /\ Unwrap(info[i]).inherent_data = "D2"
        /\ cidp[j] = "Err" /\ cid[j] = "NotCalled"

\* C15: the factory call of an invocation carries the hash of that
\* invocation's parent header and that invocation's relay parent and
\* validation data, whatever other invocations are running.
C15_FactoryArguments ==
    \A i \in Inv :
        /\ IsSome(factory_args[i]) <=> pc[i] = "create_inherent_data_providers"
        /\ IsSome(factory_args[i]) =>
              /\ Unwrap(factory_args[i]).parent = HashOf(Unwrap(args[i]).parent)
              /\ Unwrap(factory_args[i]).extra[1] = Unwrap(args[i]).relay_parent
              /\ Unwrap(factory_args[i]).extra[2] = Unwrap(args[i]).validation_data

C15_Witness ==
    \E i, j \in Inv :
        /\ IsSome(factory_args[i]) /\ IsSome(factory_args[j])
        /\ Unwrap(factory_args[i]) = [parent |-> "0xa1", extra |-> << "R1", "V1" >>]
        /\ Unwrap(factory_args[j]) = [parent |-> "0xb2", extra |-> << "R2", "V2" >>]

\* C16: the SlotInfo an invocation passes to on_slot has that invocation's
\* parent header as chain_head, the bag its assembly returned, duration
\* 12000, and the slot and timestamp that invocation read.
C16_DescriptorFields ==
    \A i \in Inv :
        /\ pc[i] = "on_slot" =>
              /\ Unwrap(info[i]).chain_head = Unwrap(args[i]).parent
              /\ Unwrap(info[i]).inherent_data = Unwrap(provided[i])
              /\ Unwrap(info[i]).duration = 12000
              /\ Unwrap(info[i]).slot = Unwrap(slot[i])
              /\ Unwrap(info[i]).timestamp = Unwrap(timestamp[i])
        /\ AttemptActive(i) =>
              /\ Unwrap(future[i].info).chain_head = Unwrap(args[i]).parent
              /\ Unwrap(future[i].info).duration = 12000

C16_Witness ==
    \E i, j \in Inv :
        /\ pc[i] = "on_slot"
        /\ Unwrap(info[i]).chain_head = "H2"
        /\ Unwrap(info[i]).inherent_data = "D1"
        /\ IsSome(args[j]) /\ Unwrap(args[j]).parent = "H1"

\* C17: the deadline is advisory - an invocation whose future is pending
\* stays suspended on it, also past ends_at, and a result that resolves after
\* ends_at is returned as the candidate all the same.
C17_DeadlineAdvisory ==
    \A i \in Inv :
        /\ AttemptActive(i) => pc[i] = "await"
        /\ (Returned(i) /\ future[i].st = "ready" /\ future[i].late
               /\ IsSome(future[i].res)) =>
              /\ IsSome(result[i])
              /\ Unwrap(result[i]).block = Unwrap(future[i].res).block
              /\ Unwrap(result[i]).proof = Unwrap(future[i].res).storage_proof

C17_Witness ==
    \E i \in Inv :
        /\ Returned(i)
        /\ future[i].late
        /\ IsSome(result[i])

\* C18: an AuraConsensus value has the four handles as its only fields, and
\* once it exists no step changes any of them, whatever the invocation does.
C18_NoOrchestratorState ==
    /\ [](\A i \in Inv :
            DOMAIN self[i] = { "inherent_data_providers", "relay_chain_backend",
                               "relay_chain_client", "aura_worker" })
    /\ [][ \A i \in Inv : pc[i] # "absent" => self'[i] = self[i] ]_vars

C18_Witness ==
    \E i, j \in Inv :
        /\ Returned(i) /\ IsSome(result[i])
        /\ Returned(j) /\ cidp[j] = "Err"
        /\ self[i] = NewSelf(1) /\ self[j] = NewSelf(1)

\* C19: nothing is built before build; from then on there has been exactly
\* one execute_with dispatch, one AuraConsensus::new and one worker, which
\* every existing value wraps, and no invocation adds to them.
C19_BuiltOnce ==
    IF \A i \in Inv : pc[i] = "absent"
    THEN dispatches = 0 /\ new_calls = 0 /\ engines_built = 0
    ELSE /\ dispatches = 1 /\ new_calls = 1 /\ engines_built = 1
         /\ \A i \in Inv : pc[i] # "absent" => self[i].aura_worker = 1

C19_Witness ==
    \E i \in Inv :
        /\ Returned(i) /\ on_slot_calls[i] = 1
        /\ dispatches = 1 /\ new_calls = 1 /\ engines_built = 1

\* C20: in every SlotInfo handed to the worker the timestamp lies in the
\* slot: slot * 12000 <= timestamp < (slot + 1) * 12000, also when the clock
\* has moved into a later slot by the time on_slot is called.
C20_TimestampInSlot ==
    \A d \in HandedInfo :
        /\ d.slot * 12000 <= d.timestamp
        /\ d.timestamp < (d.slot + 1) * 12000

C20_Witness ==
    \E d \in HandedInfo :
        /\ d.slot = 3
        /\ clock >= (d.slot + 1) * 12000

\* C21: cloning makes no second worker and no second mutex: a clone step
\* leaves the number of workers built as it is and gives the new value the
\* worker handle of its source, so all existing values hold the same handle;
\* on_slot calls made through different values are serialised by that one
\* mutex: no two invocations are inside on_slot at the same time, and an
\* invocation inside on_slot is the holder of the mutex every value refers to.
C21_ClonesShareGate ==
    /\ [](\A i, j \in Inv :
            (pc[i] # "absent" /\ pc[j] # "absent") =>
                self[i].aura_worker = self[j].aura_worker)
    /\ [](\A i, j \in Inv :
            (pc[i] = "on_slot" /\ pc[j] = "on_slot") => i = j)
    /\ [](\A i, j \in Inv :
            (pc[i] = "on_slot" /\ pc[j] # "absent") =>
                mutex[self[j].aura_worker] = i)
    /\ [][ \A j \in Inv :
             (pc[j] = "absent" /\ pc'[j] = "idle" /\ new_calls' = new_calls) =>
                /\ engines_built' = engines_built
                /\ \E i \in Inv : /\ pc[i] # "absent"
                                  /\ self'[j].aura_worker = self[i].aura_worker ]_vars

\* a clone is inside on_slot while the value it was cloned from waits for
\* the mutex
C21_Witness ==
    \E i, j \in Inv :
        /\ i < j
        /\ pc[i] = "lock"
        /\ pc[j] = "on_slot"
        /\ mutex[self[i].aura_worker] = j
        /\ engines_built = 1

\* An asset of the variant Module that names no asset of this chain: another
\* chain's id, a module that is neither Balances (1) nor Tokens (2), or a
\* token index whose low eight bits are not the discriminant of DOT (2).
UnknownModuleAsset(a, pid) ==
    \/ a.chain_id # pid
    \/ a.module_index \notin {1, 2}
    \/ (a.module_index = 2 /\ a.asset_index % 256 # 2)

\* C22: in a call of func_id 1102 the account handed to multi_asset_transfer
\* as `from` is the caller of the contract call, whatever the input buffer
\* holds, and the call lowers the balance of no account but the caller's, in
\* Balances or in Tokens.
C22_TransferDebitsCaller ==
    /\ []( (last = "call" /\ env.func_id = 1102
              /\ op.name = "multi_asset_transfer") => op.from = env.caller )
    /\ [][ (last' = "call" /\ env'.func_id = 1102) =>
             \A a \in Accounts :
                a # env'.caller =>
                   /\ free_balance'[a] >= free_balance[a]
                   /\ \A t \in TokenSymbols : tokens'[t][a] >= tokens[t][a] ]_vars

\* the caller has paid the other account out of its Balances account
C22_Witness ==
    /\ last = "call"
    /\ env.func_id = 1102
    /\ IsOk(ret)
    /\ op.from = env.caller
    /\ op.to # env.caller
    /\ op.via = "Balances"
    /\ op.amount = 500
    /\ free_balance[env.caller] = 500
    /\ free_balance[op.to] = 500

\* C23: in a call of func_id 1101 the origin of the XCM is the caller of the
\* contract call, and the call lowers the Balances balance of no account
\* but the caller's.
C23_XcmDebitsCaller ==
    [][ (last' = "call" /\ env'.func_id = 1101) =>
          /\ op'.name = "execute_xcm" => op'.from = env'.caller
          /\ \A a \in Accounts :
                a # env'.caller => free_balance'[a] >= free_balance[a] ]_vars

C26_UnknownFunction ==
    [][ last' = "call" =>
          /\ env'.func_id \notin {1101, 1102, 1104, 1105} =>
                /\ ret' = Err("unknown chain extension")
                /\ env'.reads = 0
                /\ env'.output = << >>
                /\ op' = NoOp
                /\ free_balance' = free_balance
                /\ tokens' = tokens
          /\ IsOk(ret') => ret' = Ok(Converging(0)) ]_vars

\* func_id 1103 was called with an input buffer that an XcmParameter
\* decodes from
C26_Witness ==
    /\ last = "call"
    /\ env.func_id = 1103
    /\ env.input = << 1, 100, 500 >>
    /\ ret = Err("unknown chain extension")

\* C27: try_from(s.into()) is Ok(s) for every TokenSymbol s; try_from(v) is
\* Ok exactly for v = 2, the discriminant of DOT, the only symbol, and the
\* symbol it gives converts back into v; for every other u8 it is Err(()).
C27_RoundTrip ==
    /\ IsSome(round) => Unwrap(round) = Ok(sym_in)
    /\ IsSome(tried) =>
          /\ IsOk(Unwrap(tried)) <=> byte_in = 2
          /\ IsOk(Unwrap(tried)) => Unwrap(tried) = Ok("DOT")
          /\ ~IsOk(Unwrap(tried)) => Unwrap(tried) = Err("()")
    /\ IsSome(back) => Unwrap(back) = byte_in

\* 2 went to DOT and back, and DOT to 2 and back
C27_Witness ==
    /\ byte_in = 2
    /\ tried = Some(Ok("DOT"))
    /\ back = Some(2)
    /\ round = Some(Ok("DOT"))

====
